---------------------------- MODULE Spec2Model ----------------------------
(***************************************************************************)
(* The Boys-function kernels of src/boys_pure.py (mirrored, line for line, *)
(* by src/boys_fast.py) and the incomplete-gamma path of src/boys.py, as a *)
(* state machine: one call is issued (Init), and every action is one step  *)
(* of the interpreter through the called routine and its callees.          *)
(*                                                                         *)
(* Numbers.  Python floats are modelled by binary floating point numbers   *)
(* <<mant, exp>> = mant * 2^exp with a Prec-bit signed mantissa, rounded   *)
(* to nearest-even after every operation as IEEE-754 does.  The mantissa   *)
(* is Prec bits instead of 53 and the exponent is unbounded (no overflow   *)
(* to inf, no underflow to 0): values differ from the float64 ones in the  *)
(* low bits, the control flow (comparisons, loop exits, absorption of      *)
(* small terms, cancellation) is the one of the code.                      *)
(***************************************************************************)
EXTENDS Integers, Sequences, FiniteSets, TLC

\* Mantissa width of the modelled floats, in bits.
Prec == 13
\* Largest order m / mmax issued to the Boys entry points, besides BigM.
MaxM == 3
\* One large order, far above T, issued to the scalar entry point.
BigM == 325
\* One large order issued to Fgamma, where pow(1e-12, -m-0.5) leaves the float64 range.
GammaBigM == 26
\* Passes of the summation loop of boys_ref within which it must have ended.
IterBound == 400

---------------------------------------------------------------------------
(* Floating point arithmetic *)

Abs(n) == IF n < 0 THEN -n ELSE n
Sgn(n) == IF n < 0 THEN -1 ELSE IF n = 0 THEN 0 ELSE 1
Pow2(k) == 2^k

\* Number of bits of n >= 0 (n < 2^31).
BitLen(n) ==
  IF n = 0 THEN 0
  ELSE CHOOSE k \in 1..31 : Pow2(k-1) <= n /\ (k = 31 \/ n < Pow2(k))

\* n / 2^k rounded to nearest, ties to even (n >= 0, k >= 1).
RoundShift(n, k) ==
  LET q == n \div Pow2(k)
      r == n % Pow2(k)
      half == Pow2(k-1)
  IN  IF r > half \/ (r = half /\ q % 2 = 1) THEN q + 1 ELSE q

Zero == <<0, 0>>

\* The float nearest to m * 2^e.
Norm(m, e) ==
  IF m = 0 THEN Zero
  ELSE LET n == Abs(m)
           k == BitLen(n) - Prec
       IN  IF k <= 0 THEN <<Sgn(m) * n * Pow2(-k), e + k>>
           ELSE LET q == RoundShift(n, k)
                IN  IF q = Pow2(Prec) THEN <<Sgn(m) * Pow2(Prec-1), e + k + 1>>
                    ELSE <<Sgn(m) * q, e + k>>

\* A decimal literal of the source, given to 30 bits and rounded to Prec.
Lit(m30, e) == Norm(m30, e)
\* float(n) for a Python int n.
FromInt(n) == Norm(n, 0)

IsZero(a) == a[1] = 0
Neg(a) == <<-a[1], a[2]>>
FAbs(a) == <<Abs(a[1]), a[2]>>

Mul(a, b) == Norm(a[1] * b[1], a[2] + b[2])

\* a / b for b # 0: the quotient to Prec+2 bits and a sticky bit, then rounded.
Div(a, b) ==
  IF IsZero(a) THEN Zero
  ELSE LET n == Abs(a[1]) * Pow2(Prec + 1)
           d == Abs(b[1])
           q == n \div d
           sticky == IF n % d = 0 THEN 0 ELSE 1
       IN  Norm(Sgn(a[1]) * Sgn(b[1]) * (2 * q + sticky), a[2] - b[2] - Prec - 2)

\* a + b: exact when the exponents are at most Prec+2 apart, else the smaller
\* operand is below a quarter of the last bit of the larger and is absorbed.
Add(a, b) ==
  IF IsZero(a) THEN b
  ELSE IF IsZero(b) THEN a
  ELSE LET hi == IF a[2] >= b[2] THEN a ELSE b
           lo == IF a[2] >= b[2] THEN b ELSE a
           d == hi[2] - lo[2]
       IN  IF d > Prec + 2 THEN hi
           ELSE Norm(hi[1] * Pow2(d) + lo[1], lo[2])

Sub(a, b) == Add(a, Neg(b))

Lt(a, b) == Sub(a, b)[1] < 0
Le(a, b) == Sub(a, b)[1] <= 0
Gt(a, b) == Lt(b, a)
Ge(a, b) == Le(b, a)
FMax(a, b) == IF Gt(b, a) THEN b ELSE a


One == FromInt(1)
Two == FromInt(2)
Half == Div(One, Two)
Ten == FromInt(10)

---------------------------------------------------------------------------
(* The library functions math.exp, math.sqrt and math.erf, to Prec bits *)

\* e^-(2^j), j in -18..9, to 30 bits.
ExpTab ==
  [j \in -18..9 |->
     CASE j = -18 -> <<1073737728, -30>> [] j = -17 -> <<1073733632, -30>>
       [] j = -16 -> <<1073725440, -30>> [] j = -15 -> <<1073709056, -30>>
       [] j = -14 -> <<1073676290, -30>> [] j = -13 -> <<1073610760, -30>>
       [] j = -12 -> <<1073479712, -30>> [] j = -11 -> <<1073217664, -30>>
       [] j = -10 -> <<1072693760, -30>> [] j = -9 -> <<1071646719, -30>>
       [] j = -8 -> <<1069555701, -30>> [] j = -7 -> <<1065385899, -30>>
       [] j = -6 -> <<1057095000, -30>> [] j = -5 -> <<1040706261, -30>>
       [] j = -4 -> <<1008687096, -30>> [] j = -3 -> <<947573834, -30>>
       [] j = -2 -> <<836230973, -30>> [] j = -1 -> <<651257337, -30>>
       [] j = 0 -> <<790015084, -31>> [] j = 1 -> <<581260615, -32>>
       [] j = 2 -> <<629320560, -35>> [] j = 3 -> <<737690120, -41>>
       [] j = 4 -> <<1013626742, -53>> [] j = 5 -> <<956877295, -76>>
       [] j = 6 -> <<852732134, -122>> [] j = 7 -> <<677213159, -214>>
       [] j = 8 -> <<854241965, -399>> [] j = 9 -> <<679613403, -768>>]

\* The product of e^-(2^j) over the set bits of m * 2^e, from bit k downwards.
\* Bits below 2^-18 change nothing at this precision; e^-1024 underflows to 0.0.
RECURSIVE ExpBits(_, _, _, _)
ExpBits(m, e, k, acc) ==
  IF k < 0 THEN acc
  ELSE LET j == e + k
           bit == (m \div Pow2(k)) % 2
       IN  IF bit = 0 \/ j < -18 THEN ExpBits(m, e, k - 1, acc)
           ELSE IF j > 9 THEN Zero
           ELSE ExpBits(m, e, k - 1, Mul(acc, Lit(ExpTab[j][1], ExpTab[j][2])))

\* math.exp(-T) for T >= 0.
ExpNeg(T) == ExpBits(T[1], T[2], Prec - 1, One)

RECURSIVE ISqrtR(_, _, _)
ISqrtR(N, lo, hi) ==
  IF hi - lo <= 1 THEN lo
  ELSE LET mid == (lo + hi) \div 2
       IN  IF mid * mid <= N THEN ISqrtR(N, mid, hi) ELSE ISqrtR(N, lo, mid)

\* floor(sqrt(N)) for 0 <= N < 2^30.
ISqrt(N) == ISqrtR(N, 0, Pow2(15))

\* math.sqrt(a) for a >= 0, correctly rounded.
Sqrt(a) ==
  IF IsZero(a) THEN Zero
  ELSE LET s == IF (a[2] - (Prec + 1)) % 2 = 0 THEN Prec + 1 ELSE Prec + 2
           N == a[1] * Pow2(s)
           r == ISqrt(N)
           sticky == IF r * r = N THEN 0 ELSE 1
       IN  Norm(2 * r + sticky, ((a[2] - s) \div 2) - 1)

\* math.pi and 2/sqrt(pi)
Pi == Lit(843314857, -28)
TwoOverSqrtPi == Lit(605793953, -29)

\* sum of x * (2x^2)^n / (2n+1)!! from term t (index n) on, until t is absorbed.
RECURSIVE ErfSum(_, _, _, _)
ErfSum(two_x2, t, n, acc) ==
  LET acc1 == Add(acc, t)
  IN  IF acc1 = acc /\ n > 16 THEN acc
      ELSE ErfSum(two_x2, Div(Mul(t, two_x2), FromInt(2 * n + 3)), n + 1, acc1)

\* math.erf(x) for x >= 0: 2/sqrt(pi) * e^(-x^2) * sum; 1.0 from x = 4 on, where
\* 1 - erf(x) < 2e-8 is below half a unit of the last bit.
Erf(x) ==
  IF IsZero(x) THEN Zero
  ELSE IF Ge(x, FromInt(4)) THEN One
  ELSE LET x2 == Mul(x, x)
           r == Mul(Mul(TwoOverSqrtPi, ExpNeg(x2)), ErfSum(Mul(Two, x2), x, 0, Zero))
       IN  IF Gt(r, One) THEN One ELSE r


---------------------------------------------------------------------------
(* Literals of the source *)

C_117 == FromInt(117)              \* 117.0, boys_pure.py:54,65
C_1em14 == Lit(755578637, -76)     \* 1e-14, boys_pure.py:11
C_1em10 == Lit(922337204, -63)     \* 1e-10, the default eps
C_1em3 == Lit(549755814, -39)      \* 1e-3, a coarse eps
C_1em30 == Lit(680564734, -129)    \* 1e-30, an eps below the precision of the floats
C_1em15 == Lit(604462910, -79)     \* 1e-15, an argument below the cutoff
C_0p1 == Lit(858993459, -33)       \* 0.1
C_116p99 == Lit(981383250, -23)    \* 116.99
SMALL == Lit(590295810, -69)       \* 1e-12, boys.py:7
EPS == Lit(675539944, -51)         \* 3.e-7, boys.py:33,54
FPMIN == C_1em30                   \* 1.e-30, boys.py:55
ITMAX == 100
C_1000p5 == Lit(1049100288, -20)   \* 1000.5

\* The arguments T and tolerances eps the calls are issued with.
TSet ==
  {Zero, C_1em15, C_1em14, C_0p1, One, FromInt(5), FromInt(10), FromInt(50),
   FromInt(100), C_116p99, C_117, FromInt(150), FromInt(200)}
\* eps = 20.0 makes eps/10 exceed 1, so the first clause of the loop test of
\* boys_ref is false from the start and only the second one keeps the loop going.
EpsSet == {C_1em10, C_1em3, C_1em30, FromInt(20)}
\* The arguments x and a of the calls to Fgamma and gamm_inc.
XSet ==
  {FromInt(-1), Zero, SMALL, C_0p1, One, FromInt(5), FromInt(50), FromInt(1000),
   FromInt(1002), FromInt(20004)}
ASet ==
  {FromInt(-1), Zero, Half, Add(One, Half), Add(Two, Half), C_1000p5, FromInt(20000)}

---------------------------------------------------------------------------
(* State *)

VARIABLES
  pc,      \* the routine or loop the interpreter is at; "done", "raised" at the end
  call,    \* the call issued: [fn, m, T, eps, a, x]
  arg,     \* the integer argument of the running callee (m of boys_ref, mmax of boys_recur_array)
  ser,     \* locals of boys_ref: [denom, term, old_term, sum_val, eps_div_10, n]
  rv,      \* the value boys_ref returned to its caller
  Fm,      \* the list Fm of boys_recur_array
  rec,     \* locals of boys_recur_array: [T2, eT, m]
  out,     \* the list boys_fast_array builds by comprehension, and its index
  writes,  \* the indices of Fm assigned so far, in order
  calls,   \* the routines entered so far, with their integer argument
  returns, \* what boys_ref and boys_recur_array returned so far: <<routine, argument, value>>
  gam,     \* locals of gamm_inc, _gser and _gcf
  warnings,\* the messages given to logger.warning so far
  ret,     \* what the issued call produced: <<"none">>, <<"value", v>>, <<"vector", s>>, <<"raise", e, args>>
  prev     \* the order and the result of the scalar call made before this one, if any

vars == <<pc, call, arg, ser, rv, Fm, rec, out, writes, calls, returns, gam, warnings, ret,
          prev>>

NoSer == [denom |-> Zero, term |-> Zero, old_term |-> Zero, sum_val |-> Zero,
          eps_div_10 |-> Zero, n |-> 0]
NoRec == [T2 |-> Zero, eT |-> Zero, m |-> 0]
NoOut == [list |-> <<>>, m |-> 0]
NoGam == [a |-> Zero, x |-> Zero, gln |-> "none", ap |-> Zero, delt |-> Zero,
          sum |-> Zero, b |-> Zero, c |-> Zero, d |-> Zero, h |-> Zero,
          i |-> 0, broke |-> FALSE, gam |-> <<"none">>]

\* no earlier call
NoPrev == [m |-> 0, ret |-> <<"none">>]

BoysCall(fn, m, T, eps) == [fn |-> fn, m |-> m, T |-> T, eps |-> eps, a |-> Zero, x |-> Zero]

Calls ==
  {BoysCall("boys_fast", m, T, eps) : m \in (0..MaxM) \cup {BigM}, T \in TSet, eps \in EpsSet}
  \cup {BoysCall(fn, m, T, eps) :
          fn \in {"boys_fast_array", "boys_ref", "boys_recur_array"},
          m \in 0..MaxM, T \in TSet, eps \in EpsSet}
  \cup {[fn |-> "Fgamma", m |-> m, T |-> Zero, eps |-> Zero, a |-> Zero, x |-> x] :
          m \in (0..MaxM) \cup {GammaBigM}, x \in XSet}
  \cup {[fn |-> "gamm_inc", m |-> 0, T |-> Zero, eps |-> Zero, a |-> a, x |-> x] :
          a \in ASet, x \in XSet}

Init ==
  /\ call \in Calls
  /\ pc = call.fn
  /\ arg = call.m
  /\ ser = NoSer /\ rv = Zero /\ Fm = <<>> /\ rec = NoRec /\ out = NoOut
  /\ writes = <<>>
  /\ gam = [NoGam EXCEPT !.a = call.a, !.x = call.x]
  /\ warnings = <<>>
  /\ returns = <<>>
  /\ calls = <<<<call.fn, call.m>>>>
  /\ ret = <<"none">>
  /\ prev = NoPrev

---------------------------------------------------------------------------
(* boys_ref, boys_pure.py:6-27 *)

\* 1.0 / (2.0 * m + 1.0)
ClosedForm(m) == Div(One, Add(Mul(Two, FromInt(m)), One))

\* A series routine without the cutoff for T near zero.
NearZero_never(T) == Lt(T, Zero)

\* T < 1e-14
NearZero(T) == Lt(T, C_1em14)

\* lines 14-19
RefInit(m, T, eps) ==
  LET denom == Add(FromInt(m), Half)
      term == Div(ExpNeg(T), Mul(Two, denom))
  IN  [denom |-> denom, term |-> term, old_term |-> Zero, sum_val |-> term,
       eps_div_10 |-> Div(eps, Ten), n |-> 0]

\* A loop test without its second clause.
RefCond_first(s) == Gt(s.term, Mul(s.sum_val, s.eps_div_10))

\* line 21: term > sum_val * eps_div_10 or old_term < term
RefCond(s) == Gt(s.term, Mul(s.sum_val, s.eps_div_10)) \/ Lt(s.old_term, s.term)

\* A loop body without denom += 1.0.
RefBody_fixed(s, T) ==
  LET term == Div(Mul(s.term, T), s.denom)
  IN  [s EXCEPT !.old_term = s.term, !.term = term,
                !.sum_val = Add(s.sum_val, term), !.n = s.n + 1]

\* lines 22-25
RefBody(s, T) ==
  LET denom == Add(s.denom, One)
      term == Div(Mul(s.term, T), denom)
  IN  [s EXCEPT !.denom = denom, !.old_term = s.term, !.term = term,
                !.sum_val = Add(s.sum_val, term), !.n = s.n + 1]

boys_ref_enter ==
  /\ pc = "boys_ref"
  /\ IF NearZero(call.T)
       THEN /\ rv' = ClosedForm(arg)
            /\ returns' = Append(returns, <<"boys_ref", arg, rv'>>)
            /\ pc' = "ret_boys_ref"
            /\ ser' = ser
       ELSE /\ ser' = RefInit(arg, call.T, call.eps)
            /\ pc' = "ref_loop"
            /\ UNCHANGED <<rv, returns>>
  /\ UNCHANGED <<prev, gam, warnings, call, arg, Fm, rec, out, writes, calls, ret>>

boys_ref_loop ==
  /\ pc = "ref_loop"
  /\ IF RefCond(ser)
       THEN /\ ser' = RefBody(ser, call.T)
            /\ UNCHANGED <<pc, rv, returns>>
       ELSE /\ rv' = ser.sum_val
            /\ returns' = Append(returns, <<"boys_ref", arg, rv'>>)
            /\ pc' = "ret_boys_ref"
            /\ ser' = ser
  /\ UNCHANGED <<prev, gam, warnings, call, arg, Fm, rec, out, writes, calls, ret>>

\* the issued call was boys_ref itself
boys_ref_return ==
  /\ pc = "ret_boys_ref" /\ call.fn = "boys_ref"
  /\ ret' = <<"value", rv>>
  /\ pc' = "done"
  /\ UNCHANGED <<prev, gam, warnings, returns, call, arg, ser, rv, Fm, rec, out, writes, calls>>

---------------------------------------------------------------------------
(* boys_recur_array, boys_pure.py:30-46 *)

\* K = 0.5 * math.sqrt(math.pi)
K == Mul(Half, Sqrt(Pi))

\* line 41: K * math.erf(sqrt_T) / sqrt_T
Seed(T) == Div(Mul(K, Erf(Sqrt(T))), Sqrt(T))

\* A recurrence with the factor 2m in place of 2m+1.
RecurNext_2m(m, Fm_m, eT, T2) ==
  Div(Sub(Mul(Mul(Two, FromInt(m)), Fm_m), eT), T2)

\* line 44: ((2.0 * m + 1.0) * Fm[m] - eT) / T2
RecurNext(m, Fm_m, eT, T2) ==
  Div(Sub(Mul(Add(Mul(Two, FromInt(m)), One), Fm_m), eT), T2)

\* lines 35-41; sqrt_T = 0.0 makes line 41 divide by zero
boys_recur_array_enter ==
  /\ pc = "boys_recur_array"
  /\ IF IsZero(Sqrt(call.T))
       THEN /\ ret' = <<"raise", "ZeroDivisionError", <<call.T>>>>
            /\ pc' = "raised"
            /\ UNCHANGED <<Fm, rec, writes>>
       ELSE /\ rec' = [T2 |-> Mul(Two, call.T), eT |-> ExpNeg(call.T), m |-> 0]
            /\ Fm' = [i \in 1..(arg + 1) |-> IF i = 1 THEN Seed(call.T) ELSE Zero]
            /\ writes' = <<0>>
            /\ pc' = "recur_loop"
            /\ ret' = ret
  /\ UNCHANGED <<prev, gam, warnings, returns, call, arg, ser, rv, out, calls>>

\* lines 43-46: for m in range(mmax), then return Fm
boys_recur_array_loop ==
  /\ pc = "recur_loop"
  /\ IF rec.m < arg
       THEN /\ Fm' = [Fm EXCEPT ![rec.m + 2] = RecurNext(rec.m, Fm[rec.m + 1], rec.eT, rec.T2)]
            /\ writes' = Append(writes, rec.m + 1)
            /\ rec' = [rec EXCEPT !.m = rec.m + 1]
            /\ UNCHANGED <<pc, returns>>
       ELSE /\ pc' = "ret_boys_recur_array"
            /\ returns' = Append(returns, <<"boys_recur_array", arg, Fm>>)
            /\ UNCHANGED <<Fm, writes, rec>>
  /\ UNCHANGED <<prev, gam, warnings, call, arg, ser, rv, out, calls, ret>>

boys_recur_array_return ==
  /\ pc = "ret_boys_recur_array" /\ call.fn = "boys_recur_array"
  /\ ret' = <<"vector", Fm>>
  /\ pc' = "done"
  /\ UNCHANGED <<prev, gam, warnings, returns, call, arg, ser, rv, Fm, rec, out, writes, calls>>

---------------------------------------------------------------------------
(* boys_fast, boys_pure.py:49-58 *)

\* A dispatcher that sends T = 117.0 to the series.
UseSeries_le(T) == Le(T, C_117)

\* line 54: T < 117.0
UseSeries(T) == Lt(T, C_117)

boys_fast ==
  /\ pc = "boys_fast"
  /\ IF UseSeries(call.T)
       THEN /\ pc' = "boys_ref"
            /\ calls' = Append(calls, <<"boys_ref", call.m>>)
       ELSE /\ pc' = "boys_recur_array"
            /\ calls' = Append(calls, <<"boys_recur_array", call.m>>)
  /\ arg' = call.m
  /\ UNCHANGED <<prev, gam, warnings, returns, call, ser, rv, Fm, rec, out, writes, ret>>

\* line 55: return boys_ref(m, T, eps)
boys_fast_return_ref ==
  /\ pc = "ret_boys_ref" /\ call.fn = "boys_fast"
  /\ ret' = <<"value", rv>>
  /\ pc' = "done"
  /\ UNCHANGED <<prev, gam, warnings, returns, call, arg, ser, rv, Fm, rec, out, writes, calls>>

\* A scalar entry point that returns the seed Fm_arr[0] whatever m is.
FastIndex_seed(m) == 1

\* line 58: return Fm_arr[m]
FastIndex(m) == m + 1

boys_fast_return_recur ==
  /\ pc = "ret_boys_recur_array" /\ call.fn = "boys_fast"
  /\ ret' = <<"value", Fm[FastIndex(call.m)]>>
  /\ pc' = "done"
  /\ UNCHANGED <<prev, gam, warnings, returns, call, arg, ser, rv, Fm, rec, out, writes, calls>>

---------------------------------------------------------------------------
(* boys_fast_array, boys_pure.py:61-68 *)

boys_fast_array ==
  /\ pc = "boys_fast_array"
  /\ IF UseSeries(call.T)
       THEN /\ pc' = "array_next"
            /\ out' = [list |-> <<>>, m |-> 0]
            /\ UNCHANGED <<arg, calls>>
       ELSE /\ pc' = "boys_recur_array"
            /\ arg' = call.m
            /\ calls' = Append(calls, <<"boys_recur_array", call.m>>)
            /\ out' = out
  /\ UNCHANGED <<prev, gam, warnings, returns, call, ser, rv, Fm, rec, writes, ret>>

\* A comprehension over range(mmax).
CompRange_short(mmax) == mmax

\* line 66: for m in range(mmax + 1): call boys_ref(m, T, eps), or return the list
CompRange(mmax) == mmax + 1

boys_fast_array_next ==
  /\ pc = "array_next"
  /\ IF out.m < CompRange(call.m)
       THEN /\ arg' = out.m
            /\ calls' = Append(calls, <<"boys_ref", out.m>>)
            /\ pc' = "boys_ref"
            /\ ret' = ret
       ELSE /\ ret' = <<"vector", out.list>>
            /\ pc' = "done"
            /\ UNCHANGED <<arg, calls>>
  /\ UNCHANGED <<prev, gam, warnings, returns, call, ser, rv, Fm, rec, out, writes>>

\* line 66: the value boys_ref returned becomes the next element
boys_fast_array_collect ==
  /\ pc = "ret_boys_ref" /\ call.fn = "boys_fast_array"
  /\ out' = [list |-> Append(out.list, rv), m |-> out.m + 1]
  /\ pc' = "array_next"
  /\ UNCHANGED <<prev, gam, warnings, returns, call, arg, ser, rv, Fm, rec, writes, calls, ret>>

\* line 68: return boys_recur_array(mmax, T)
boys_fast_array_return_recur ==
  /\ pc = "ret_boys_recur_array" /\ call.fn = "boys_fast_array"
  /\ ret' = <<"vector", Fm>>
  /\ pc' = "done"
  /\ UNCHANGED <<prev, gam, warnings, returns, call, arg, ser, rv, Fm, rec, out, writes, calls>>

---------------------------------------------------------------------------
(* gamm_inc, boys.py:11-28 *)

\* An assertion that lets x = 0 through.
Precondition_ge(a, x) == Ge(x, Zero) /\ Ge(a, Zero)

\* line 21: assert (x > 0 and a >= 0)
Precondition(a, x) == Gt(x, Zero) /\ Ge(a, Zero)

\* line 23: x < (a+1.0)
UseGser(a, x) == Lt(x, Add(a, One))

\* The assertion fails with the message "...: %s,%s" % (x,a), or a branch is entered.
gamm_inc ==
  /\ pc = "gamm_inc"
  /\ IF ~Precondition(gam.a, gam.x)
       THEN /\ ret' = <<"raise", "AssertionError", <<gam.x, gam.a>>>>
            /\ pc' = "raised"
            /\ calls' = calls
       ELSE /\ pc' = IF UseGser(gam.a, gam.x) THEN "_gser" ELSE "_gcf"
            /\ calls' = Append(calls, <<pc', 0>>)
            /\ ret' = ret
  /\ UNCHANGED <<prev, returns, call, arg, ser, rv, Fm, rec, out, writes, gam, warnings>>

---------------------------------------------------------------------------
(* _gser, boys.py:30-49 *)

\* lgamma(a) has a pole at a = 0: math.lgamma raises ValueError there, a
\* gammaln that follows IEEE returns inf.  The import is not in the file, so
\* both outcomes are possible; elsewhere the value is finite.
LgammaOutcomes(a) == IF IsZero(a) THEN {"ValueError", "inf"} ELSE {"finite"}

\* A loop that makes one pass more.
GserMore_extra(g) == g.i <= ITMAX

\* line 41: for i in range(ITMAX)
GserMore(g) == g.i < ITMAX

\* lines 42-44
GserBody(g) ==
  LET ap == Add(g.ap, One)
      delt == Div(Mul(g.delt, g.x), ap)
  IN  [g EXCEPT !.ap = ap, !.delt = delt, !.sum = Add(g.sum, delt), !.i = g.i + 1]

\* line 45: abs(delt) < abs(sum)*EPS
GserConverged(g) == Lt(FAbs(g.delt), Mul(FAbs(g.sum), EPS))

\* lines 35-40: gln, the assertion x >= 0, the early return for x == 0, and
\* delt = sum = 1./a, which divides by zero for a = 0.
gser_enter ==
  /\ pc = "_gser"
  /\ \E o \in LgammaOutcomes(gam.a) :
       IF o = "ValueError"
         THEN /\ ret' = <<"raise", "ValueError", <<gam.a>>>>
              /\ pc' = "raised"
              /\ gam' = gam
         ELSE IF Lt(gam.x, Zero)
         THEN /\ ret' = <<"raise", "AssertionError", <<gam.x>>>>
              /\ pc' = "raised"
              /\ gam' = [gam EXCEPT !.gln = o]
         ELSE IF IsZero(gam.x)
         THEN /\ gam' = [gam EXCEPT !.gln = o, !.gam = <<"gamser", Zero>>]
              /\ pc' = "ret_gser"
              /\ ret' = ret
         ELSE IF IsZero(gam.a)
         THEN /\ ret' = <<"raise", "ZeroDivisionError", <<gam.a>>>>
              /\ pc' = "raised"
              /\ gam' = [gam EXCEPT !.gln = o]
         ELSE /\ gam' = [gam EXCEPT !.gln = o, !.ap = gam.a,
                                    !.delt = Div(One, gam.a), !.sum = Div(One, gam.a)]
              /\ pc' = "gser_loop"
              /\ ret' = ret
  /\ UNCHANGED <<prev, returns, call, arg, ser, rv, Fm, rec, out, writes, calls, warnings>>

\* lines 41-47: one pass of the for loop, its break, or its else clause
gser_loop ==
  /\ pc = "gser_loop"
  /\ IF GserMore(gam)
       THEN /\ gam' = [GserBody(gam) EXCEPT !.broke = GserConverged(GserBody(gam))]
            /\ pc' = IF gam'.broke THEN "gser_end" ELSE pc
            /\ warnings' = warnings
       ELSE /\ warnings' = Append(warnings, "a too large, ITMAX too small in gser")
            /\ pc' = "gser_end"
            /\ gam' = gam
  /\ UNCHANGED <<prev, returns, call, arg, ser, rv, Fm, rec, out, writes, calls, ret>>

\* lines 48-49: gamser = sum*np.exp(-x+a*np.log(x)-gln).  The factor is a
\* product of library values; the returned number is kept as the partial sum
\* it scales.
gser_end ==
  /\ pc = "gser_end"
  /\ gam' = [gam EXCEPT !.gam = <<"gamser", gam.sum>>]
  /\ pc' = "ret_gser"
  /\ UNCHANGED <<prev, returns, call, arg, ser, rv, Fm, rec, out, writes, calls, warnings, ret>>

---------------------------------------------------------------------------
(* _gcf, boys.py:51-76 *)

\* line 62: for i in range(1,ITMAX+1); g.i counts the passes made
GcfMore(g) == g.i + 1 < ITMAX + 1

\* lines 66, 68: if abs(v) < FPMIN: v=FPMIN
Floor(v) == IF Lt(FAbs(v), FPMIN) THEN FPMIN ELSE v

\* lines 63-71, for the loop variable i = g.i + 1
GcfBody(g) ==
  LET i == g.i + 1
      an == Mul(FromInt(-i), Sub(FromInt(i), g.a))
      b == Add(g.b, Two)
      d == Div(One, Floor(Add(Mul(an, g.d), b)))
      c == Floor(Add(b, Div(an, g.c)))
      delt == Mul(d, c)
  IN  [g EXCEPT !.b = b, !.d = d, !.c = c, !.delt = delt, !.h = Mul(g.h, delt),
                !.i = i]

\* line 72: abs(delt-1.) < EPS
GcfConverged(g) == Lt(FAbs(Sub(g.delt, One)), EPS)

\* lines 57-61; d=1./b divides by zero when x+1.-a rounds to 0.0
gcf_enter ==
  /\ pc = "_gcf"
  /\ \E o \in LgammaOutcomes(gam.a) :
       IF o = "ValueError"
         THEN /\ ret' = <<"raise", "ValueError", <<gam.a>>>>
              /\ pc' = "raised"
              /\ gam' = gam
         ELSE LET b == Sub(Add(gam.x, One), gam.a)
              IN  IF IsZero(b)
                    THEN /\ ret' = <<"raise", "ZeroDivisionError", <<gam.a, gam.x>>>>
                         /\ pc' = "raised"
                         /\ gam' = [gam EXCEPT !.gln = o]
                    ELSE /\ gam' = [gam EXCEPT !.gln = o, !.b = b, !.c = Div(One, FPMIN),
                                               !.d = Div(One, b), !.h = Div(One, b)]
                         /\ pc' = "gcf_loop"
                         /\ ret' = ret
  /\ UNCHANGED <<prev, returns, call, arg, ser, rv, Fm, rec, out, writes, calls, warnings>>

\* lines 62-74
gcf_loop ==
  /\ pc = "gcf_loop"
  /\ IF GcfMore(gam)
       THEN /\ gam' = [GcfBody(gam) EXCEPT !.broke = GcfConverged(GcfBody(gam))]
            /\ pc' = IF gam'.broke THEN "gcf_end" ELSE pc
            /\ warnings' = warnings
       ELSE /\ warnings' = Append(warnings, "a too large, ITMAX too small in gcf")
            /\ pc' = "gcf_end"
            /\ gam' = gam
  /\ UNCHANGED <<prev, returns, call, arg, ser, rv, Fm, rec, out, writes, calls, ret>>

\* lines 75-76: gammcf = np.exp(-x+a*np.log(x)-gln)*h, kept as h
gcf_end ==
  /\ pc = "gcf_end"
  /\ gam' = [gam EXCEPT !.gam = <<"gammcf", gam.h>>]
  /\ pc' = "ret_gcf"
  /\ UNCHANGED <<prev, returns, call, arg, ser, rv, Fm, rec, out, writes, calls, warnings, ret>>

---------------------------------------------------------------------------
(* gamm_inc's return, boys.py:24-28, and Fgamma, boys.py:1-9 *)

\* line 24: gam = gamser; lines 26-27: gam = 1-gamc
GamOf(g) == IF g.gam[1] = "gamser" THEN g.gam ELSE <<"1-gamc", g.gam[2]>>

\* line 28: return np.exp(gln)*gam
gamm_inc_return ==
  /\ pc \in {"ret_gser", "ret_gcf"}
  /\ gam' = [gam EXCEPT !.gam = GamOf(gam)]
  /\ IF call.fn = "gamm_inc"
       THEN /\ ret' = <<"value", <<"exp(gln)*gam", gam'.gam>>>>
            /\ pc' = "done"
       ELSE /\ ret' = ret
            /\ pc' = "ret_gamm_inc"
  /\ UNCHANGED <<prev, returns, call, arg, ser, rv, Fm, rec, out, writes, calls, warnings>>

\* An Fgamma that passes x on as it is.
Clamp_none(x) == x

\* line 8: x = max(x,SMALL)
Clamp(x) == FMax(x, SMALL)

RECURSIVE PowInt(_, _)
PowInt(x, n) == IF n = 0 THEN One ELSE Mul(x, PowInt(x, n - 1))

\* pow(x,-m-0.5) for x > 0, with an exponent that is not cut at the float64 range
PowNeg(x, m) == Div(One, Mul(PowInt(x, m), Sqrt(x)))

\* pow raises OverflowError when the result is 2^1024 or more
PowOverflows(x, m) == PowNeg(x, m)[2] + Prec - 1 >= 1024

\* lines 8-9, up to the call of gamm_inc: the clamp, then 0.5*pow(x,-m-0.5),
\* which raises ZeroDivisionError for x = 0.0
Fgamma ==
  /\ pc = "Fgamma"
  /\ LET x == Clamp(call.x)
     IN  IF IsZero(x)
           THEN /\ ret' = <<"raise", "ZeroDivisionError", <<x>>>>
                /\ pc' = "raised"
                /\ UNCHANGED <<gam, calls>>
           ELSE IF PowOverflows(x, call.m)
           THEN /\ ret' = <<"raise", "OverflowError", <<x>>>>
                /\ pc' = "raised"
                /\ UNCHANGED <<gam, calls>>
           ELSE /\ gam' = [gam EXCEPT !.a = Add(FromInt(call.m), Half), !.x = x]
                /\ calls' = Append(calls, <<"gamm_inc", call.m>>)
                /\ pc' = "gamm_inc"
                /\ ret' = ret
  /\ UNCHANGED <<prev, returns, call, arg, ser, rv, Fm, rec, out, writes, warnings>>

\* line 9: the product is returned
Fgamma_return ==
  /\ pc = "ret_gamm_inc" /\ call.fn = "Fgamma"
  /\ ret' = <<"value", <<"0.5*pow(x,-m-0.5)*", gam.gam>>>>
  /\ pc' = "done"
  /\ UNCHANGED <<prev, returns, call, arg, ser, rv, Fm, rec, out, writes, calls, gam, warnings>>

---------------------------------------------------------------------------
(* main, boys_pure.py:86-96: single value tests, then array tests *)

\* A caller that holds the value of boys_fast(m, T, eps) goes on to call
\* boys_fast_array(mmax, T, eps) for some mmax >= m. The functions keep no
\* state between calls, so the second call starts from fresh frames.
main_array_tests ==
  /\ pc = "done" /\ call.fn = "boys_fast" /\ prev = NoPrev
  /\ \E mmax \in call.m..MaxM :
       /\ call' = BoysCall("boys_fast_array", mmax, call.T, call.eps)
       /\ arg' = mmax
       /\ calls' = <<<<"boys_fast_array", mmax>>>>
  /\ prev' = [m |-> call.m, ret |-> ret]
  /\ pc' = "boys_fast_array"
  /\ ser' = NoSer /\ rv' = Zero /\ Fm' = <<>> /\ rec' = NoRec /\ out' = NoOut
  /\ writes' = <<>> /\ returns' = <<>> /\ ret' = <<"none">>
  /\ UNCHANGED <<gam, warnings>>

---------------------------------------------------------------------------

Next ==
  \/ boys_ref_enter \/ boys_ref_loop \/ boys_ref_return
  \/ boys_recur_array_enter \/ boys_recur_array_loop \/ boys_recur_array_return
  \/ boys_fast \/ boys_fast_return_ref \/ boys_fast_return_recur
  \/ boys_fast_array \/ boys_fast_array_next \/ boys_fast_array_collect
  \/ boys_fast_array_return_recur
  \/ gamm_inc \/ gser_enter \/ gser_loop \/ gser_end
  \/ gcf_enter \/ gcf_loop \/ gcf_end
  \/ gamm_inc_return \/ Fgamma \/ Fgamma_return
  \/ main_array_tests

Spec == Init /\ [][Next]_vars

---------------------------------------------------------------------------
(* Claims *)

HasCall(name) == \E i \in DOMAIN calls : calls[i][1] = name

\* C1: boys_fast(m, T, eps) returns what boys_ref(m, T, eps) returned when
\* T < 117.0 and element m of boys_recur_array(m, T) otherwise, T = 117.0
\* included; it never enters the recurrence for T < 117.0 nor the series for
\* T >= 117.0.
C1_Dispatch ==
  call.fn = "boys_fast" =>
    IF Lt(call.T, C_117)
      THEN /\ ~HasCall("boys_recur_array")
           /\ Fm = <<>> /\ writes = <<>>
           /\ pc = "done" =>
                /\ calls = <<<<"boys_fast", call.m>>, <<"boys_ref", call.m>>>>
                /\ Len(returns) = 1
                /\ ret = <<"value", returns[1][3]>>
      ELSE /\ ~HasCall("boys_ref")
           /\ ser = NoSer
           /\ pc = "done" =>
                /\ calls = <<<<"boys_fast", call.m>>, <<"boys_recur_array", call.m>>>>
                /\ Len(returns) = 1
                /\ Len(returns[1][3]) = call.m + 1
                /\ ret = <<"value", returns[1][3][call.m + 1]>>

C1_Witness ==
  /\ pc = "done" /\ call.fn = "boys_fast" /\ call.T = C_117 /\ call.m = 2
  /\ HasCall("boys_recur_array") /\ ret = <<"value", Fm[3]>>

\* C2: boys_fast_array(mmax, T, eps) returns mmax+1 values; for T < 117.0
\* element i is what the i-th of mmax+1 separate calls boys_ref(i, T, eps)
\* returned, and for T >= 117.0 the list is the result of the single call
\* boys_recur_array(mmax, T).
C2_Array ==
  (call.fn = "boys_fast_array" /\ pc = "done") =>
    /\ ret[1] = "vector"
    /\ Len(ret[2]) = call.m + 1
    /\ IF Lt(call.T, C_117)
         THEN /\ calls = [i \in 1..(call.m + 2) |->
                            IF i = 1 THEN <<"boys_fast_array", call.m>>
                            ELSE <<"boys_ref", i - 2>>]
              /\ Len(returns) = call.m + 1
              /\ \A i \in 0..call.m :
                   /\ returns[i + 1][1] = "boys_ref" /\ returns[i + 1][2] = i
                   /\ ret[2][i + 1] = returns[i + 1][3]
         ELSE /\ calls = <<<<"boys_fast_array", call.m>>, <<"boys_recur_array", call.m>>>>
              /\ returns = <<<<"boys_recur_array", call.m, ret[2]>>>>

C2_Witness ==
  /\ pc = "done" /\ call.fn = "boys_fast_array" /\ call.m = 2 /\ call.T = FromInt(5)
  /\ Len(ret[2]) = 3 /\ Len(returns) = 3
  /\ ret[2][1] # ret[2][2] /\ ret[2][2] # ret[2][3]

\* C3: for T < 1e-14, T = 0.0 included, boys_ref and so boys_fast return
\* 1/(2m+1) without a single pass of the summation loop.
C3_NearZero ==
  (call.fn \in {"boys_ref", "boys_fast"} /\ Lt(call.T, C_1em14)) =>
    /\ pc # "ref_loop"
    /\ ser = NoSer
    /\ pc = "done" => ret = <<"value", Div(One, FromInt(2 * call.m + 1))>>

C3_Witness ==
  /\ pc = "done" /\ call.fn = "boys_fast" /\ call.T = C_1em15 /\ call.m = 3
  /\ ret = <<"value", Div(One, FromInt(7))>> /\ ser.n = 0

InvalidArgument == ret[1] = "raise" /\ ret[2] = "AssertionError"
Ended == pc \in {"done", "raised"}

\* C4, as stated: Fgamma(m, 0.0) and Fgamma(m, -1.0) end with an
\* invalid-argument error.
C4_Original ==
  (call.fn = "Fgamma" /\ call.x \in {Zero, FromInt(-1)} /\ Ended) => InvalidArgument

\* C4, amended: Fgamma(m, 0.0) and Fgamma(m, -1.0) raise no invalid-argument
\* error: x is replaced by max(x, 1e-12) = 1e-12, gamm_inc is entered with
\* a = m+0.5 and x = 1e-12, its precondition holds, the power series is the
\* branch evaluated and a number is returned; the only error is the
\* OverflowError of pow(1e-12, -m-0.5), raised before gamm_inc is called.
C4_Clamped ==
  (call.fn = "Fgamma" /\ call.x \in {Zero, FromInt(-1)}) =>
    /\ ~InvalidArgument
    /\ HasCall("gamm_inc") =>
         /\ gam.x = SMALL /\ gam.x[1] > 0
         /\ gam.a = Add(FromInt(call.m), Half) /\ gam.a[1] > 0
    /\ ~HasCall("_gcf")
    /\ pc = "done" =>
         /\ calls = <<<<"Fgamma", call.m>>, <<"gamm_inc", call.m>>, <<"_gser", 0>>>>
         /\ ret[1] = "value"
    /\ pc = "raised" => (ret[2] = "OverflowError" /\ ~HasCall("gamm_inc"))

C4_Witness ==
  /\ pc = "done" /\ call.fn = "Fgamma" /\ call.x = FromInt(-1) /\ call.m = 1
  /\ ret[1] = "value" /\ HasCall("_gser")

\* C5: gamm_inc(a, x) with x <= 0 or a < 0 fails with an error carrying x and
\* a before either branch is entered; with x > 0 and a >= 0 the check passes
\* and exactly one branch is entered, the power series when x < a+1, else the
\* continued fraction, whose value is turned into gam = 1 - gamc.
C5_Precondition ==
  call.fn = "gamm_inc" =>
    IF call.x[1] <= 0 \/ call.a[1] < 0
      THEN /\ pc \in {"gamm_inc", "raised"}
           /\ calls = <<<<"gamm_inc", 0>>>>
           /\ pc = "raised" => ret = <<"raise", "AssertionError", <<call.x, call.a>>>>
      ELSE /\ ~InvalidArgument
           /\ pc # "gamm_inc" =>
                calls = <<<<"gamm_inc", 0>>,
                          <<IF Lt(call.x, Add(call.a, One)) THEN "_gser" ELSE "_gcf", 0>>>>
           /\ pc = "done" =>
                ret[2][2][1] = IF Lt(call.x, Add(call.a, One)) THEN "gamser" ELSE "1-gamc"

C5_Witness ==
  /\ pc = "raised" /\ call.fn = "gamm_inc" /\ call.x = Zero /\ call.a = Half
  /\ ret = <<"raise", "AssertionError", <<Zero, Half>>>>

\* C6: _gser and _gcf make at most 100 passes of their loop; when the 100
\* passes end without the convergence test being met, the warning is logged
\* and the routine returns its partial result: no error is raised once the
\* loop has started, and no warning is logged after a break.
C6_Cap ==
  /\ gam.i <= ITMAX
  /\ Len(warnings) <= 1
  /\ pc \in {"gser_end", "gcf_end", "ret_gser", "ret_gcf", "ret_gamm_inc", "done"} =>
       (warnings # <<>>) = (gam.i = ITMAX /\ ~gam.broke)
  /\ pc \in {"gser_loop", "gcf_loop", "raised"} => warnings = <<>>
  /\ pc = "raised" => gam.i = 0
  /\ (pc = "done" /\ warnings # <<>>) =>
       /\ ret[1] = "value"
       /\ gam.gam[2] = IF HasCall("_gser") THEN gam.sum ELSE gam.h

C6_Witness ==
  /\ pc = "done" /\ call.fn = "gamm_inc" /\ HasCall("_gser")
  /\ gam.i = ITMAX /\ ~gam.broke
  /\ warnings = <<"a too large, ITMAX too small in gser">>
  /\ ret[1] = "value"

\* C7, as stated: the value boys_fast(m, T) returns is strictly positive and
\* at most 1/(2m+1), on the series path and on the recurrence path.
C7_Bounds ==
  (pc = "done" /\ call.fn = "boys_fast") =>
    /\ ret[2][1] > 0
    /\ Le(ret[2], Div(One, FromInt(2 * call.m + 1)))

\* C9: boys_recur_array(mmax, T), T > 0, returns mmax+1 elements: element 0
\* is 0.5*sqrt(pi)*erf(sqrt(T))/sqrt(T), element m+1 is
\* ((2m+1)*element[m] - exp(-T)) / (2T); the elements are assigned once each
\* in increasing order from the seed on, in exactly mmax passes of the loop.
C9_Recurrence ==
  /\ pc = "recur_loop" =>
       /\ writes = [i \in 1..(rec.m + 1) |-> i - 1]
       /\ rec.m <= arg
       /\ Len(Fm) = arg + 1
  /\ pc \in {"ret_boys_recur_array", "done"} /\ HasCall("boys_recur_array") =>
       /\ Len(Fm) = arg + 1
       /\ Fm[1] = Div(Mul(Mul(Half, Sqrt(Pi)), Erf(Sqrt(call.T))), Sqrt(call.T))
       /\ \A m \in 0..(arg - 1) :
            Fm[m + 2] = Div(Sub(Mul(FromInt(2 * m + 1), Fm[m + 1]), ExpNeg(call.T)),
                            Mul(Two, call.T))
       /\ writes = [i \in 1..(arg + 1) |-> i - 1]
       /\ rec.m = arg

C9_Witness ==
  /\ pc = "done" /\ call.fn = "boys_recur_array" /\ call.m = 3 /\ call.T = FromInt(5)
  /\ ret = <<"vector", Fm>> /\ Len(Fm) = 4 /\ writes = <<0, 1, 2, 3>>
  /\ Fm[4][1] > 0 /\ Lt(Fm[4], Fm[3])

\* C10: the summation loop of boys_ref has no cap, and yet for 0 <= T < 117
\* and eps > 0 it ends after finitely many passes: every step taken at the
\* loop either is one more pass, which adds one to the pass counter, or is
\* the return of the sum, and the pass counter never exceeds IterBound.
C10_Terminates ==
  /\ []((Le(Zero, call.T) /\ Lt(call.T, C_117)) => ser.n <= IterBound)
  /\ [][(pc = "ref_loop" /\ Le(Zero, call.T) /\ Lt(call.T, C_117)) =>
          \/ pc' = "ref_loop" /\ ser'.n = ser.n + 1
          \/ pc' = "ret_boys_ref" /\ rv' = ser.sum_val /\ ser' = ser]_vars

C10_Witness ==
  /\ pc = "done" /\ call.fn = "boys_ref" /\ call.T = C_116p99 /\ call.eps = C_1em30
  /\ ser.n > 200 /\ ret = <<"value", ser.sum_val>>

\* C11: in the general case of boys_ref (T >= 1e-14) convergence is never
\* accepted on a term larger than its predecessor: every pass moves the term
\* to old_term and adds the new term to the sum, and when the routine returns
\* after at least one pass the last term added is at most sum*(eps/10) and at
\* most old_term; the loop body runs at least once when the initial term
\* exp(-T)/(2m+1) is positive.
C11_Convergence ==
  /\ []((pc = "ret_boys_ref" /\ ~NearZero(call.T)) =>
          /\ ser.n >= 1 =>
               /\ Le(ser.term, Mul(ser.sum_val, ser.eps_div_10))
               /\ Le(ser.term, ser.old_term)
          /\ RefInit(arg, call.T, call.eps).term[1] > 0 => ser.n >= 1)
  /\ [][(pc = "ref_loop" /\ pc' = "ref_loop") =>
          /\ ser'.old_term = ser.term
          /\ ser'.sum_val = Add(ser.sum_val, ser'.term)]_vars

C11_Witness ==
  /\ pc = "done" /\ call.fn = "boys_ref" /\ call.T = FromInt(100)
  /\ call.eps = FromInt(20) /\ call.m = 1
  /\ ser.n > 50
  /\ Lt(ser.term, ser.old_term)
  /\ Le(ser.term, Mul(ser.sum_val, ser.eps_div_10))
  /\ ret = <<"value", ser.sum_val>>

\* C12: the scalar and the vector entry point agree: element m of
\* boys_fast_array(mmax, T, eps) is the value boys_fast(m, T, eps) returned,
\* for every m <= mmax; on the recurrence path the list of
\* boys_recur_array(m, T) is a prefix of the list of boys_recur_array(mmax, T).
C12_Agree ==
  (pc = "done" /\ call.fn = "boys_fast_array" /\ prev # NoPrev) =>
    /\ prev.m <= call.m
    /\ ret[1] = "vector" /\ prev.ret[1] = "value"
    /\ ret[2][prev.m + 1] = prev.ret[2]
    /\ ~Lt(call.T, C_117) => Len(Fm) = call.m + 1 /\ Fm[prev.m + 1] = prev.ret[2]

C12_Witness ==
  /\ pc = "done" /\ call.fn = "boys_fast_array" /\ call.m = 3 /\ call.T = FromInt(150)
  /\ prev.m = 1 /\ prev.ret[1] = "value"
  /\ ret[2][2] = prev.ret[2] /\ ret[2][4] # prev.ret[2]
  /\ HasCall("boys_recur_array")

=============================================================================
